---- MODULE Spec2Model ----
(***************************************************************************)
(* The five hassette example apps as state machines: ClimateController,    *)
(* PresenceTracker, MotionLights, CoverScheduler and SecurityMonitor.      *)
(* The apps share no state, so each has its own variables, its own initial *)
(* predicate and its own next-state relation, and a specification in which *)
(* it runs while the others rest (SpecClimate, SpecPresence, ...); Spec    *)
(* puts the apps side by side.                                             *)
(*                                                                         *)
(* What an app does is observable as the commands it hands to the host's   *)
(* Command API (turn_on, turn_off, set_state, call_service), the bus       *)
(* subscriptions it creates and cancels, and what it stores in the cache.  *)
(* A handler runs without interruption up to an `await` of a host call;    *)
(* at the await it is suspended and other callbacks may run.               *)
(***************************************************************************)
EXTENDS Integers, Sequences, FiniteSets, TLC

None == "None"
\* a state value of None, among values that are character sequences
NoValue == <<"None">>
\* a float | None variable holding None
NoFloat == [kind |-> "None"]

(***************************************************************************)
(* Bounds of the model.                                                    *)
(***************************************************************************)
\* longest sensor value string fed to the temperature handlers
MaxLen == 4
\* tracker state changes delivered to one PresenceTracker
MaxTrackerEvents == 3
\* changes of the motion entity delivered to one MotionLights
MaxMotionEvents == 3
\* app_config.off_delay, in ticks of the model's clock
OffDelay == 2
\* app_config.moisture_throttle, in ticks of the model's clock
MoistureThrottle == 3
\* the SecurityMonitor's clock stops here
MaxTime == 8
\* calls of on_moisture_detected recorded
MaxAlerts == 4
\* the most calls a run makes through an iterator gone astray over a changed store
MaxCalls == 2

VARIABLES
    \* ---- ClimateController ----
    temp_threshold,     \* app_config.temp_threshold, a decimal [m, k] = m / 10^k
    new_state_value,    \* new_state.value of the sensor's state change event
    current_temp,       \* current_temperature of the hvac's latest attribute change
    climate_handler,    \* the handler or job the host invoked last
    climate_issued,     \* the commands that invocation handed to the api
    climate_raised,     \* whether that invocation ended in an exception
    \* ---- PresenceTracker ----
    person_name,        \* app_config.person_name
    tracker,            \* the state store's value of tracker_entity
    init_pc,            \* where on_initialize is: start, set_state, done
    tracker_state,      \* on_initialize's local tracker_state
    initial_status,     \* on_initialize's local initial_status
    tracker_events,     \* new_state.value of each tracker event delivered, in order
    tracker_pc,         \* per event, where its on_tracker_change is: set_state, done
    zone_subscription,  \* self._zone_subscription: NoSub or a subscription id
    live_subs,          \* the bus's zone.home subscriptions created and not cancelled
    subs_created,       \* how many subscriptions the bus has handed out
    sensor_writes,      \* the api.set_state calls made, in order
    \* ---- MotionLights ----
    motion,             \* the state of motion_entity
    light,              \* the state store's value of light_entity
    motion_changes,     \* how many times motion_entity has changed
    detected,           \* per change to "on", its on_motion_detected: [pc, issued]
    debounce,           \* NoTimer, or the time left before on_motion_cleared is called
    cleared,            \* per on_motion_cleared call: [light, motion, issued]
    \* ---- CoverScheduler ----
    covers,             \* the state store's cover entities: id -> value or Absent
    cache,              \* the host's cache, a dict: a set of <<key, value>>
    cover_phase,        \* stopped or running
    cached,             \* on_initialize's local cached: {} for None, else {value}
    saved_store,        \* the state store as it was at the latest save, {} before any
    logged_since_init,  \* whether log_cover_positions has run since on_initialize
    open_job,           \* the latest open_all_covers run: [pc, todo, calls, known,
                        \* changed]; known are the store's entities as the run
                        \* began, changed whether one has entered or left since
    close_job,          \* the latest close_all_covers run, likewise
    \* ---- SecurityMonitor ----
    moisture,           \* the state of binary_sensor.basement_floor_wet
    clock,              \* the time
    last_alert,         \* the throttle's time of the last call let through, or NoTimer
    alerts              \* the calls of on_moisture_detected: [time, value]

climateVars ==
    <<temp_threshold, new_state_value, current_temp, climate_handler, climate_issued,
      climate_raised>>

presenceVars ==
    <<person_name, tracker, init_pc, tracker_state, initial_status,
      tracker_events, tracker_pc, zone_subscription, live_subs, subs_created, sensor_writes>>

motionVars == <<motion, light, motion_changes, detected, debounce, cleared>>

coverVars ==
    <<covers, cache, cover_phase, cached, saved_store, logged_since_init,
      open_job, close_job>>

securityVars == <<moisture, clock, last_alert, alerts>>

vars == <<climateVars, presenceVars, motionVars, coverVars, securityVars>>

(***************************************************************************)
(* Sensor values.  A state value is None or a string; a string is a        *)
(* sequence of characters.                                                 *)
(***************************************************************************)
Digits == {"2", "4", "5"}
Chars == Digits \cup {".", "-", " ", "n", "a"}

Strings(n) == UNION {[1..k -> Chars] : k \in 0..n}

SensorValues == {NoValue} \cup Strings(MaxLen)

DigitVal(c) ==
    CASE c = "0" -> 0 [] c = "1" -> 1 [] c = "2" -> 2 [] c = "3" -> 3
      [] c = "4" -> 4 [] c = "5" -> 5 [] c = "6" -> 6 [] c = "7" -> 7
      [] c = "8" -> 8 [] c = "9" -> 9

RECURSIVE LStrip(_)
LStrip(s) == IF s # <<>> /\ Head(s) = " " THEN LStrip(Tail(s)) ELSE s

RECURSIVE RStrip(_)
RStrip(s) ==
    IF s # <<>> /\ s[Len(s)] = " " THEN RStrip(SubSeq(s, 1, Len(s) - 1)) ELSE s

Strip(s) == RStrip(LStrip(s))

RECURSIVE Pow10(_)
Pow10(k) == IF k = 0 THEN 1 ELSE 10 * Pow10(k - 1)

\* the integer written by the digits of s, the character "." skipped
RECURSIVE Mantissa(_, _)
Mantissa(s, acc) ==
    IF s = <<>> THEN acc
    ELSE IF Head(s) = "." THEN Mantissa(Tail(s), acc)
    ELSE Mantissa(Tail(s), 10 * acc + DigitVal(Head(s)))

\* the number of digits after the "." of s (0 when there is none)
Decimals(s) ==
    LET dots == {i \in 1..Len(s) : s[i] = "."}
    IN  IF dots = {} THEN 0 ELSE Len(s) - (CHOOSE i \in dots : TRUE)

\* an unsigned decimal literal: digits with at most one ".", at least one digit
IsDecimal(s) ==
    /\ \A i \in 1..Len(s) : s[i] \in Digits \cup {"."}
    /\ Cardinality({i \in 1..Len(s) : s[i] = "."}) <= 1
    /\ \E i \in 1..Len(s) : s[i] \in Digits

(***************************************************************************)
(* Python's float(str) on the strings over Chars: surrounding whitespace   *)
(* is stripped, an optional sign follows, then "nan" or a decimal literal. *)
(* Anything else raises ValueError.  The result is                         *)
(*   [kind |-> "num", m, k]   the number m / 10^k,                         *)
(*   [kind |-> "nan"]         a NaN,                                       *)
(*   [kind |-> "ValueError"]  the exception.                               *)
(***************************************************************************)
PyFloat(s) ==
    LET t == Strip(s)
        neg == t # <<>> /\ Head(t) = "-"
        r == IF neg THEN Tail(t) ELSE t
    IN  IF r = <<"n", "a", "n">> THEN [kind |-> "nan"]
        ELSE IF IsDecimal(r)
             THEN [kind |-> "num",
                   m |-> (IF neg THEN -1 ELSE 1) * Mantissa(r, 0),
                   k |-> Decimals(r)]
             ELSE [kind |-> "ValueError"]

\* Python's a > b and a <= b on floats; every comparison with a NaN is False
FloatGt(a, b) ==
    /\ a.kind = "num"
    /\ b.kind = "num"
    /\ a.m * Pow10(b.k) > b.m * Pow10(a.k)

FloatLe(a, b) ==
    /\ a.kind = "num"
    /\ b.kind = "num"
    /\ a.m * Pow10(b.k) <= b.m * Pow10(a.k)

(***************************************************************************)
(* ClimateController                                                       *)
(***************************************************************************)
ac_switch == "switch.ac"

\* temp_threshold is a configuration field; 24.0 is its default
TempThresholds ==
    {[kind |-> "num", m |-> 240, k |-> 1],
     [kind |-> "num", m |-> 245, k |-> 1],
     [kind |-> "num", m |-> -5, k |-> 0]}

\* the coercion without its try/except: a ValueError reaches the handler
CoerceTemp_Uncaught(value) ==
    IF value = NoValue THEN NoFloat ELSE PyFloat(value)

\* temp = float(new_state.value) if new_state.value is not None else None,
\* with ValueError and TypeError caught and turned into None
CoerceTemp(value) ==
    IF value = NoValue THEN NoFloat
    ELSE LET f == PyFloat(value)
         IN  IF f.kind = "ValueError" THEN NoFloat ELSE f

TurnOn(entity) == [cmd |-> "turn_on", entity |-> entity]
TurnOff(entity) == [cmd |-> "turn_off", entity |-> entity]

\* a handler's outcome: an exception that reaches it ends it before any command
Outcome(temp, commands) ==
    IF temp.kind = "ValueError"
    THEN [raised |-> TRUE, issued |-> <<>>]
    ELSE [raised |-> FALSE, issued |-> commands]

\* on_temp_increased comparing with >= where the code compares with >
TempIncreasedOutcome_Ge(value, threshold) ==
    LET temp == CoerceTemp(value)
    IN  Outcome(temp, IF temp # NoFloat /\ ~FloatGt(threshold, temp) /\ temp.kind = "num"
                      THEN <<TurnOn(ac_switch)>>
                      ELSE <<>>)

\* what on_temp_increased does for a new sensor value
TempIncreasedOutcome(value, threshold) ==
    LET temp == CoerceTemp(value)
    IN  Outcome(temp, IF temp # NoFloat /\ FloatGt(temp, threshold)
                      THEN <<TurnOn(ac_switch)>>
                      ELSE <<>>)

\* on_temp_decreased comparing with < where the code compares with <=
TempDecreasedOutcome_Lt(value, threshold) ==
    LET temp == CoerceTemp(value)
    IN  Outcome(temp, IF temp # NoFloat /\ FloatGt(threshold, temp)
                      THEN <<TurnOff(ac_switch)>>
                      ELSE <<>>)

\* what on_temp_decreased does for a new sensor value
TempDecreasedOutcome(value, threshold) ==
    LET temp == CoerceTemp(value)
    IN  Outcome(temp, IF temp # NoFloat /\ FloatLe(temp, threshold)
                      THEN <<TurnOff(ac_switch)>>
                      ELSE <<>>)

\* current_temperature is a float or None
HvacTemps ==
    {NoFloat,
     [kind |-> "num", m |-> 250, k |-> 1],
     [kind |-> "num", m |-> 24, k |-> 0]}

\* what on_hvac_temp_change does for a new current_temperature
HvacTempOutcome(temp, threshold) ==
    IF temp # NoFloat /\ FloatGt(temp, threshold)
    THEN <<TurnOn(ac_switch)>>
    ELSE <<>>

ClimateInit ==
    /\ temp_threshold \in TempThresholds
    /\ new_state_value \in SensorValues
    /\ current_temp = NoFloat
    /\ climate_handler = None
    /\ climate_issued = <<>>
    /\ climate_raised = FALSE

\* the app is not running: its variables rest
ClimateParked ==
    /\ temp_threshold = [kind |-> "num", m |-> 240, k |-> 1]
    /\ new_state_value = NoValue
    /\ current_temp = NoFloat
    /\ climate_handler = None
    /\ climate_issued = <<>>
    /\ climate_raised = FALSE

on_temp_increased ==
    LET out == TempIncreasedOutcome(new_state_value, temp_threshold)
    IN  /\ climate_handler' = "on_temp_increased"
        /\ climate_issued' = out.issued
        /\ climate_raised' = out.raised
        /\ UNCHANGED <<temp_threshold, new_state_value, current_temp>>
        /\ UNCHANGED <<presenceVars, motionVars, coverVars, securityVars>>

on_temp_decreased ==
    LET out == TempDecreasedOutcome(new_state_value, temp_threshold)
    IN  /\ climate_handler' = "on_temp_decreased"
        /\ climate_issued' = out.issued
        /\ climate_raised' = out.raised
        /\ UNCHANGED <<temp_threshold, new_state_value, current_temp>>
        /\ UNCHANGED <<presenceVars, motionVars, coverVars, securityVars>>

\* the hvac's current_temperature attribute changes to temp
HvacTempChange(temp) ==
    /\ temp # current_temp
    /\ current_temp' = temp
    /\ climate_handler' = "on_hvac_temp_change"
    /\ climate_issued' = HvacTempOutcome(temp, temp_threshold)
    /\ climate_raised' = FALSE
    /\ UNCHANGED <<temp_threshold, new_state_value>>
    /\ UNCHANGED <<presenceVars, motionVars, coverVars, securityVars>>

on_hvac_temp_change == \E temp \in HvacTemps : HvacTempChange(temp)

\* the periodic summary reads the state store and logs; it issues nothing
log_climate_summary ==
    /\ climate_handler' = "log_climate_summary"
    /\ climate_issued' = <<>>
    /\ climate_raised' = FALSE
    /\ UNCHANGED <<temp_threshold, new_state_value, current_temp>>
    /\ UNCHANGED <<presenceVars, motionVars, coverVars, securityVars>>

\* what on_initialize registers: three listeners and one job
ClimateNext ==
    \/ on_temp_increased
    \/ on_temp_decreased
    \/ on_hvac_temp_change
    \/ log_climate_summary

(***************************************************************************)
(* PresenceTracker                                                         *)
(***************************************************************************)
NoSub == 0

TrackerValues == {"home", "not_home", "work"}
\* the tracker entity is not in the state store
Missing == "missing"

PersonNames == {<<"U", "n", "k", "n", "o", "w", "n">>, <<"b", "O", "B">>}

UpperCase == <<"A", "B", "C", "D", "E", "F", "G", "H", "I", "J", "K", "L", "M",
               "N", "O", "P", "Q", "R", "S", "T", "U", "V", "W", "X", "Y", "Z">>
LowerCase == <<"a", "b", "c", "d", "e", "f", "g", "h", "i", "j", "k", "l", "m",
               "n", "o", "p", "q", "r", "s", "t", "u", "v", "w", "x", "y", "z">>

\* str.lower() on ASCII letters
LowerChar(c) ==
    IF \E i \in 1..26 : UpperCase[i] = c
    THEN LowerCase[CHOOSE i \in 1..26 : UpperCase[i] = c]
    ELSE c

Lower(s) == [i \in 1..Len(s) |-> LowerChar(s[i])]

\* f"sensor.{cfg.person_name.lower()}_presence"
PresenceSensor(name) == <<"sensor.">> \o Lower(name) \o <<"_presence">>

\* "home" if tracker_state and tracker_state.value == "home" else "away"
InitialStatus(state) ==
    IF state # Missing /\ state = "home" THEN "home" ELSE "away"

\* a status that takes only "not_home" for away
TrackerStatus_NotHomeOnly(value) == IF value = "not_home" THEN "away" ELSE "home"

\* "home" if new_state.value == "home" else "away"
TrackerStatus(value) == IF value = "home" THEN "home" ELSE "away"

SetState(entity, state) == [entity |-> entity, state |-> state]

PresenceInit ==
    /\ person_name \in PersonNames
    /\ tracker \in TrackerValues \cup {Missing}
    /\ init_pc = "start"
    /\ tracker_state = Missing
    /\ initial_status = None
    /\ tracker_events = <<>>
    /\ tracker_pc = <<>>
    /\ zone_subscription = NoSub
    /\ live_subs = {}
    /\ subs_created = 0
    /\ sensor_writes = <<>>

PresenceParked ==
    /\ person_name = <<"U", "n", "k", "n", "o", "w", "n">>
    /\ tracker = Missing
    /\ init_pc = "start"
    /\ tracker_state = Missing
    /\ initial_status = None
    /\ tracker_events = <<>>
    /\ tracker_pc = <<>>
    /\ zone_subscription = NoSub
    /\ live_subs = {}
    /\ subs_created = 0
    /\ sensor_writes = <<>>

\* self._zone_subscription = self.bus.on_state_change("zone.home", ...)
subscribe_to_zone ==
    /\ subs_created' = subs_created + 1
    /\ zone_subscription' = subs_created + 1
    /\ live_subs' = live_subs \cup {subs_created + 1}

\* on_initialize up to its await: the tracker listener is registered, the
\* tracker is read and set_state is called
InitializeStart ==
    /\ init_pc = "start"
    /\ tracker_state' = tracker
    /\ initial_status' = InitialStatus(tracker)
    /\ sensor_writes' =
           Append(sensor_writes,
                  SetState(PresenceSensor(person_name), InitialStatus(tracker)))
    /\ init_pc' = "set_state"
    /\ UNCHANGED <<person_name, tracker, tracker_events, tracker_pc,
                   zone_subscription, live_subs, subs_created>>
    /\ UNCHANGED <<climateVars, motionVars, coverVars, securityVars>>

\* on_initialize after set_state returned
InitializeResume ==
    /\ init_pc = "set_state"
    /\ IF initial_status = "away"
       THEN subscribe_to_zone
       ELSE UNCHANGED <<zone_subscription, live_subs, subs_created>>
    /\ init_pc' = "done"
    /\ UNCHANGED <<person_name, tracker, tracker_state, initial_status,
                   tracker_events, tracker_pc, sensor_writes>>
    /\ UNCHANGED <<climateVars, motionVars, coverVars, securityVars>>

\* the tracker changes to value: the bus invokes on_tracker_change, which
\* runs up to its await of set_state
TrackerChange(value) ==
    /\ init_pc # "start"
    /\ Len(tracker_events) < MaxTrackerEvents
    /\ value # tracker
    /\ tracker' = value
    /\ tracker_events' = Append(tracker_events, value)
    /\ tracker_pc' = Append(tracker_pc, "set_state")
    /\ sensor_writes' =
           Append(sensor_writes,
                  SetState(PresenceSensor(person_name), TrackerStatus(value)))
    /\ UNCHANGED <<person_name, init_pc, tracker_state, initial_status,
                   zone_subscription, live_subs, subs_created>>
    /\ UNCHANGED <<climateVars, motionVars, coverVars, securityVars>>

\* on_tracker_change of event i after set_state returned
TrackerResume(i) ==
    /\ i \in 1..Len(tracker_pc)
    /\ tracker_pc[i] = "set_state"
    /\ tracker_pc' = [tracker_pc EXCEPT ![i] = "done"]
    /\ IF tracker_events[i] # "home" /\ zone_subscription = NoSub
       THEN subscribe_to_zone
       ELSE IF tracker_events[i] = "home" /\ zone_subscription # NoSub
            THEN /\ live_subs' = live_subs \ {zone_subscription}
                 /\ zone_subscription' = NoSub
                 /\ UNCHANGED subs_created
            ELSE UNCHANGED <<zone_subscription, live_subs, subs_created>>
    /\ UNCHANGED <<person_name, tracker, init_pc, tracker_state,
                   initial_status, tracker_events, sensor_writes>>
    /\ UNCHANGED <<climateVars, motionVars, coverVars, securityVars>>

on_tracker_change == \E value \in TrackerValues : TrackerChange(value)

on_tracker_change_resume == \E i \in 1..MaxTrackerEvents : TrackerResume(i)

PresenceNext ==
    \/ InitializeStart
    \/ InitializeResume
    \/ on_tracker_change
    \/ on_tracker_change_resume

(***************************************************************************)
(* MotionLights                                                            *)
(***************************************************************************)
light_entity == "light.kitchen_lights"
boost_brightness == 255
default_brightness == 100

NoTimer == -1

MotionValues == {"on", "off", "unavailable"}
LightValues == {"on", "off", Missing}

\* the light turned on at the default brightness instead
LightTurnOn_Default ==
    [cmd |-> "turn_on", entity |-> light_entity, brightness |-> default_brightness]

\* light.turn_on(brightness=cfg.boost_brightness)
LightTurnOn ==
    [cmd |-> "turn_on", entity |-> light_entity, brightness |-> boost_brightness]

\* self.api.turn_off(cfg.light_entity, "light")
LightTurnOff == [cmd |-> "turn_off", entity |-> light_entity, domain |-> "light"]

\* the listener of on_motion_detected: changed_to="on", no rate limit
DetectedSubscription == [changed_to |-> "on", debounce |-> 0]

\* the listener of on_motion_cleared: changed_to="off", debounce=cfg.off_delay
ClearedSubscription == [changed_to |-> "off", debounce |-> OffDelay]

\* what on_motion_cleared hands to the api, given the light's cached state
MotionClearedCommands(light_state) ==
    IF light_state # Missing /\ light_state = "on" THEN <<LightTurnOff>> ELSE <<>>

MotionInit ==
    /\ motion \in MotionValues
    /\ light \in LightValues
    /\ motion_changes = 0
    /\ detected = <<>>
    /\ debounce = NoTimer
    /\ cleared = <<>>

MotionParked ==
    /\ motion = "off"
    /\ light = Missing
    /\ motion_changes = 0
    /\ detected = <<>>
    /\ debounce = NoTimer
    /\ cleared = <<>>

\* the motion entity changes to value; the bus hands the event to the
\* listeners whose changed_to matches: on_motion_detected is invoked at once
\* and runs up to its await of get_entity, on_motion_cleared is debounced:
\* a pending call is dropped and the new one is due after the delay
MotionChange(value) ==
    /\ motion_changes < MaxMotionEvents
    /\ value # motion
    /\ motion' = value
    /\ motion_changes' = motion_changes + 1
    /\ detected' = IF value = DetectedSubscription.changed_to
                   THEN Append(detected, [pc |-> "get_entity", issued |-> <<>>])
                   ELSE detected
    /\ debounce' = IF value = ClearedSubscription.changed_to
                   THEN ClearedSubscription.debounce
                   ELSE debounce
    /\ UNCHANGED <<light, cleared>>
    /\ UNCHANGED <<climateVars, presenceVars, coverVars, securityVars>>

MotionToOn == MotionChange("on")

MotionToOff == MotionChange("off")

MotionToUnavailable == MotionChange("unavailable")

\* on_motion_detected of the i-th change to "on" resumes from an await:
\* after get_entity it calls light.turn_on, after that light.refresh
DetectedResume(i) ==
    /\ i \in 1..Len(detected)
    /\ \/ /\ detected[i].pc = "get_entity"
          /\ detected' = [detected EXCEPT ![i] =
                              [pc |-> "turn_on", issued |-> <<LightTurnOn>>]]
       \/ /\ detected[i].pc = "turn_on"
          /\ detected' = [detected EXCEPT ![i].pc = "refresh"]
       \/ /\ detected[i].pc = "refresh"
          /\ detected' = [detected EXCEPT ![i].pc = "done"]
    /\ UNCHANGED <<motion, light, motion_changes, debounce, cleared>>
    /\ UNCHANGED <<climateVars, presenceVars, coverVars, securityVars>>

on_motion_detected_resume == \E i \in 1..MaxMotionEvents : DetectedResume(i)

\* the light's state changes in the state store
LightChange(value) ==
    /\ value # light
    /\ light' = value
    /\ UNCHANGED <<motion, motion_changes, detected, debounce, cleared>>
    /\ UNCHANGED <<climateVars, presenceVars, coverVars, securityVars>>

LightChanges == \E value \in LightValues : LightChange(value)

\* time passes while no debounced call is due
Tick ==
    /\ debounce > 0
    /\ debounce' = debounce - 1
    /\ UNCHANGED <<motion, light, motion_changes, detected, cleared>>
    /\ UNCHANGED <<climateVars, presenceVars, coverVars, securityVars>>

\* the debounce delay has passed: on_motion_cleared is called
on_motion_cleared ==
    /\ debounce = 0
    /\ debounce' = NoTimer
    /\ cleared' = Append(cleared, [light |-> light, motion |-> motion,
                                   issued |-> MotionClearedCommands(light)])
    /\ UNCHANGED <<motion, light, motion_changes, detected>>
    /\ UNCHANGED <<climateVars, presenceVars, coverVars, securityVars>>

MotionNext ==
    \/ MotionToOn
    \/ MotionToOff
    \/ MotionToUnavailable
    \/ on_motion_detected_resume
    \/ LightChanges
    \/ Tick
    \/ on_motion_cleared

(***************************************************************************)
(* CoverScheduler                                                          *)
(***************************************************************************)
CACHE_KEY_POSITIONS == "last_cover_positions"

CoverIds == <<"cover.kitchen_window", "cover.hall_window">>
CoverIdSet == {CoverIds[i] : i \in 1..Len(CoverIds)}
\* a cover's value is a string or None
CoverValues == {"open", "closed", None}
\* the entity is not in the state store
Absent == "absent"

CoverStores == [CoverIdSet -> CoverValues \cup {Absent}]

\* a dict is the set of its <<key, value>> pairs
DictGet(dict, key) == {p[2] : p \in {q \in dict : q[1] = key}}

DictSet(dict, key, value) == {q \in dict : q[1] # key} \cup {<<key, value>>}

\* the sequences of the ids in a set, each id once
Orders(ids) ==
    {s \in [1..Cardinality(ids) -> ids] :
         \A i, j \in 1..Cardinality(ids) : s[i] = s[j] => i = j}

\* an iteration that leaves out the covers that have no value
CoverEntities_WithValue(store) ==
    Orders({e \in CoverIdSet : store[e] # Absent /\ store[e] # None})

\* for entity_id, cover in self.states.cover: the entity ids iterated, each
\* entity of the store once; the order is the store's, which is the host's, so
\* every order is possible
CoverEntities(store) == Orders({e \in CoverIdSet : store[e] # Absent})

\* _get_cover_positions: {entity_id: cover.value} over self.states.cover
GetCoverPositions(store) ==
    UNION {{<<ids[i], store[ids[i]]>> : i \in 1..Len(ids)} : ids \in CoverEntities(store)}

CallService(domain, service, entity) ==
    [domain |-> domain, service |-> service, target |-> entity]

\* the service open_all_covers calls: call_service("cover", "open_cover", ...)
OpenCover == "open_cover"

\* the service close_all_covers calls: call_service("cover", "close_cover", ...)
CloseCover == "close_cover"

IdleJob == [pc |-> "idle", todo |-> <<>>, calls |-> <<>>, known |-> {},
            changed |-> FALSE]

CoverInit ==
    /\ covers \in CoverStores
    /\ cache = {}
    /\ cover_phase = "stopped"
    /\ cached = {}
    /\ saved_store = {}
    /\ logged_since_init = FALSE
    /\ open_job = IdleJob
    /\ close_job = IdleJob

CoverParked ==
    /\ covers = [e \in CoverIdSet |-> Absent]
    /\ cache = {}
    /\ cover_phase = "stopped"
    /\ cached = {}
    /\ saved_store = {}
    /\ logged_since_init = FALSE
    /\ open_job = IdleJob
    /\ close_job = IdleJob

\* a run suspended in its loop over the state store, when an entity enters or
\* leaves the store: the store has changed under the loop's iterator
StoreChanged(job, old, new) ==
    IF job.pc = "call_service" /\ (old = Absent \/ new = Absent)
    THEN [job EXCEPT !.changed = TRUE]
    ELSE job

\* a cover appears, disappears or changes its value in the state store
CoverChange(entity, value) ==
    /\ value # covers[entity]
    /\ covers' = [covers EXCEPT ![entity] = value]
    /\ open_job' = StoreChanged(open_job, covers[entity], value)
    /\ close_job' = StoreChanged(close_job, covers[entity], value)
    /\ UNCHANGED <<cache, cover_phase, cached, saved_store, logged_since_init>>
    /\ UNCHANGED <<climateVars, presenceVars, motionVars, securityVars>>

CoverChanges ==
    \E entity \in CoverIdSet, value \in CoverValues \cup {Absent} :
        CoverChange(entity, value)

\* on_initialize: cached = self.cache.get(CACHE_KEY_POSITIONS); the jobs and
\* listeners are registered
cover_on_initialize ==
    /\ cover_phase = "stopped"
    /\ cover_phase' = "running"
    /\ cached' = DictGet(cache, CACHE_KEY_POSITIONS)
    /\ logged_since_init' = FALSE
    /\ open_job' = IdleJob
    /\ close_job' = IdleJob
    /\ UNCHANGED <<covers, cache, saved_store>>
    /\ UNCHANGED <<climateVars, presenceVars, motionVars, securityVars>>

\* log_cover_positions, run hourly
log_cover_positions ==
    /\ cover_phase = "running"
    /\ cache' = DictSet(cache, CACHE_KEY_POSITIONS, GetCoverPositions(covers))
    /\ saved_store' = {covers}
    /\ logged_since_init' = TRUE
    /\ UNCHANGED <<covers, cover_phase, cached, open_job, close_job>>
    /\ UNCHANGED <<climateVars, presenceVars, motionVars, securityVars>>

\* a shutdown that reads the positions and does not store them
on_shutdown_NoSave ==
    /\ cover_phase = "running"
    /\ open_job.pc # "call_service"
    /\ close_job.pc # "call_service"
    /\ saved_store' = {covers}
    /\ cover_phase' = "stopped"
    /\ UNCHANGED <<covers, cache, cached, logged_since_init, open_job, close_job>>
    /\ UNCHANGED <<climateVars, presenceVars, motionVars, securityVars>>

\* on_shutdown; the host stops the app's jobs with it
on_shutdown ==
    /\ cover_phase = "running"
    /\ open_job.pc # "call_service"
    /\ close_job.pc # "call_service"
    /\ cache' = DictSet(cache, CACHE_KEY_POSITIONS, GetCoverPositions(covers))
    /\ saved_store' = {covers}
    /\ cover_phase' = "stopped"
    /\ UNCHANGED <<covers, cached, logged_since_init, open_job, close_job>>
    /\ UNCHANGED <<climateVars, presenceVars, motionVars, securityVars>>

\* a run of a job's loop from its start to its first await: the first call
StartJob(ids, store, service) ==
    LET known == {e \in CoverIdSet : store[e] # Absent}
    IN  IF ids = <<>>
        THEN [pc |-> "done", todo |-> <<>>, calls |-> <<>>, known |-> known,
              changed |-> FALSE]
        ELSE [pc |-> "call_service", todo |-> Tail(ids),
              calls |-> <<CallService("cover", service, Head(ids))>>,
              known |-> known, changed |-> FALSE]

\* the loop goes on from call_service: the next call, or the end
NextCover(job, service) ==
    IF job.todo = <<>>
    THEN [job EXCEPT !.pc = "done"]
    ELSE [job EXCEPT !.todo = Tail(job.todo),
                     !.calls = Append(job.calls,
                                     CallService("cover", service, Head(job.todo)))]

\* the loop resumes from call_service and asks the iterator of
\* self.states.cover for the next entity.  The iterator is the host's: over a
\* store no entity has entered or left since the loop began it yields the
\* next entity, or ends.  Over a store that has changed under it the
\* repository does not say what it does: it may go on as before, yield any
\* entity now in the store, end, or raise out of the job
ResumeJob(job, store, service) ==
    {NextCover(job, service)}
        \cup (IF job.changed
              THEN {[job EXCEPT !.pc = "raised", !.todo = <<>>],
                    [job EXCEPT !.pc = "done", !.todo = <<>>]}
                   \cup {[job EXCEPT !.todo = <<>>,
                                     !.calls =
                                         Append(@, CallService("cover", service, e))] :
                             e \in {x \in CoverIdSet : store[x] # Absent
                                                        /\ Len(job.calls) < MaxCalls}}
              ELSE {})

open_all_covers ==
    /\ cover_phase = "running"
    /\ open_job.pc # "call_service"
    /\ \E ids \in CoverEntities(covers) : open_job' = StartJob(ids, covers, OpenCover)
    /\ UNCHANGED <<covers, cache, cover_phase, cached, saved_store,
                   logged_since_init, close_job>>
    /\ UNCHANGED <<climateVars, presenceVars, motionVars, securityVars>>

open_all_covers_resume ==
    /\ open_job.pc = "call_service"
    /\ open_job' \in ResumeJob(open_job, covers, OpenCover)
    /\ UNCHANGED <<covers, cache, cover_phase, cached, saved_store,
                   logged_since_init, close_job>>
    /\ UNCHANGED <<climateVars, presenceVars, motionVars, securityVars>>

close_all_covers ==
    /\ cover_phase = "running"
    /\ close_job.pc # "call_service"
    /\ \E ids \in CoverEntities(covers) : close_job' = StartJob(ids, covers, CloseCover)
    /\ UNCHANGED <<covers, cache, cover_phase, cached, saved_store,
                   logged_since_init, open_job>>
    /\ UNCHANGED <<climateVars, presenceVars, motionVars, securityVars>>

close_all_covers_resume ==
    /\ close_job.pc = "call_service"
    /\ close_job' \in ResumeJob(close_job, covers, CloseCover)
    /\ UNCHANGED <<covers, cache, cover_phase, cached, saved_store,
                   logged_since_init, open_job>>
    /\ UNCHANGED <<climateVars, presenceVars, motionVars, securityVars>>

\* the app's lifecycle and its cache
CoverCacheNext ==
    \/ CoverChanges
    \/ cover_on_initialize
    \/ log_cover_positions
    \/ on_shutdown

\* the scheduled jobs of the running app
CoverJobsNext ==
    \/ CoverChanges
    \/ cover_on_initialize
    \/ open_all_covers
    \/ open_all_covers_resume
    \/ close_all_covers
    \/ close_all_covers_resume

CoverNext == CoverCacheNext \/ CoverJobsNext

(***************************************************************************)
(* SecurityMonitor                                                         *)
(***************************************************************************)
MoistureValues == {"on", "off", "unavailable"}

\* a listener registered without its throttle
MoistureSubscription_NoThrottle ==
    [entity |-> "binary_sensor.basement_floor_wet", changed_to |-> "on",
     throttle |-> 0]

\* the listener of on_moisture_detected:
\* changed_to="on", throttle=cfg.moisture_throttle
MoistureSubscription ==
    [entity |-> "binary_sensor.basement_floor_wet", changed_to |-> "on",
     throttle |-> MoistureThrottle]

\* the bus's throttle: a call is let through when none was before, or the
\* last one let through is at least `seconds` ago
ThrottleAdmits(last, now, seconds) == last = NoTimer \/ now - last >= seconds

SecurityInit ==
    /\ moisture \in MoistureValues
    /\ clock = 0
    /\ last_alert = NoTimer
    /\ alerts = <<>>

SecurityParked ==
    /\ moisture = "off"
    /\ clock = 0
    /\ last_alert = NoTimer
    /\ alerts = <<>>

\* the sensor changes to value; the bus calls on_moisture_detected when the
\* listener's changed_to matches and its throttle lets the call through
MoistureChange(value) ==
    /\ value # moisture
    /\ Len(alerts) < MaxAlerts
    /\ moisture' = value
    /\ IF /\ value = MoistureSubscription.changed_to
          /\ ThrottleAdmits(last_alert, clock, MoistureSubscription.throttle)
       THEN /\ alerts' = Append(alerts, [time |-> clock, value |-> value])
            /\ last_alert' = clock
       ELSE UNCHANGED <<alerts, last_alert>>
    /\ UNCHANGED clock
    /\ UNCHANGED <<climateVars, presenceVars, motionVars, coverVars>>

MoistureChanges == \E value \in MoistureValues : MoistureChange(value)

SecurityTick ==
    /\ clock < MaxTime
    /\ clock' = clock + 1
    /\ UNCHANGED <<moisture, last_alert, alerts>>
    /\ UNCHANGED <<climateVars, presenceVars, motionVars, coverVars>>

SecurityNext ==
    \/ MoistureChanges
    \/ SecurityTick

(***************************************************************************)
(* One specification per app: the app runs, the others rest.  Spec is the  *)
(* apps side by side.                                                      *)
(***************************************************************************)
InitClimateApp ==
    ClimateInit /\ PresenceParked /\ MotionParked /\ CoverParked /\ SecurityParked

SpecClimate == InitClimateApp /\ [][ClimateNext]_vars

InitPresenceApp ==
    PresenceInit /\ ClimateParked /\ MotionParked /\ CoverParked /\ SecurityParked

SpecPresence == InitPresenceApp /\ [][PresenceNext]_vars

InitMotionApp ==
    MotionInit /\ ClimateParked /\ PresenceParked /\ CoverParked /\ SecurityParked

SpecMotion == InitMotionApp /\ [][MotionNext]_vars

\* the event loop runs every callback that is ready, and time passes
MotionFairness ==
    /\ WF_vars(Tick)
    /\ WF_vars(on_motion_cleared)
    /\ \A i \in 1..MaxMotionEvents : WF_vars(DetectedResume(i))

FairSpecMotion == SpecMotion /\ MotionFairness

InitCoverApp ==
    CoverInit /\ ClimateParked /\ PresenceParked /\ MotionParked /\ SecurityParked

SpecCoverCache == InitCoverApp /\ [][CoverCacheNext]_vars

SpecCoverJobs == InitCoverApp /\ [][CoverJobsNext]_vars

InitSecurityApp ==
    SecurityInit /\ ClimateParked /\ PresenceParked /\ MotionParked /\ CoverParked

SpecSecurity == InitSecurityApp /\ [][SecurityNext]_vars

Init ==
    \/ InitClimateApp
    \/ InitPresenceApp
    \/ InitMotionApp
    \/ InitCoverApp
    \/ InitSecurityApp

Next ==
    \/ ClimateNext
    \/ PresenceNext
    \/ MotionNext
    \/ CoverNext
    \/ SecurityNext

Spec == Init /\ [][Next]_vars

(***************************************************************************)
(* ClimateController: the temperature handlers.                            *)
(***************************************************************************)
Present(value) == value # NoValue

ParsesAsNumber(value) == PyFloat(value).kind \in {"num", "nan"}

AboveThreshold(value) ==
    /\ Present(value)
    /\ ParsesAsNumber(value)
    /\ FloatGt(PyFloat(value), temp_threshold)

AtOrBelowThreshold(value) ==
    /\ Present(value)
    /\ ParsesAsNumber(value)
    /\ FloatLe(PyFloat(value), temp_threshold)

\* C1: on_temp_increased issues turn_on for ac_switch exactly when the new
\* value is present, parses as a number and is strictly greater than
\* temp_threshold; otherwise it issues no command, and it never issues turn_off.
C1_TempIncreased ==
    climate_handler = "on_temp_increased" =>
        /\ climate_issued = <<TurnOn(ac_switch)>> <=> AboveThreshold(new_state_value)
        /\ ~AboveThreshold(new_state_value) => climate_issued = <<>>
        /\ \A i \in 1..Len(climate_issued) : climate_issued[i].cmd # "turn_off"

\* on_temp_increased has turned the AC on for "24.5" above a threshold of 24.0
C1_Witness ==
    /\ climate_handler = "on_temp_increased"
    /\ new_state_value = <<"2", "4", ".", "5">>
    /\ temp_threshold = [kind |-> "num", m |-> 240, k |-> 1]
    /\ climate_issued = <<[cmd |-> "turn_on", entity |-> "switch.ac"]>>

\* C2: on_temp_decreased issues turn_off for ac_switch exactly when the new
\* value is present, parses as a number and is less than or equal to
\* temp_threshold; otherwise it issues no command, and it never issues turn_on.
C2_TempDecreased ==
    climate_handler = "on_temp_decreased" =>
        /\ climate_issued = <<TurnOff(ac_switch)>> <=> AtOrBelowThreshold(new_state_value)
        /\ ~AtOrBelowThreshold(new_state_value) => climate_issued = <<>>
        /\ \A i \in 1..Len(climate_issued) : climate_issued[i].cmd # "turn_on"

\* on_temp_decreased has turned the AC off for "24.5" at a threshold of 24.5
C2_Witness ==
    /\ climate_handler = "on_temp_decreased"
    /\ new_state_value = <<"2", "4", ".", "5">>
    /\ temp_threshold = [kind |-> "num", m |-> 245, k |-> 1]
    /\ climate_issued = <<[cmd |-> "turn_off", entity |-> "switch.ac"]>>

\* C3: in both temperature handlers a new value that is None or does not
\* parse as a number is treated as absent: the handler ends without raising
\* and issues neither turn_on nor turn_off.
C3_UnparsableIsAbsent ==
    (/\ climate_handler \in {"on_temp_increased", "on_temp_decreased"}
     /\ (~Present(new_state_value) \/ ~ParsesAsNumber(new_state_value))) =>
        /\ ~climate_raised
        /\ climate_issued = <<>>

\* on_temp_decreased has run on the unparsable "2.4." and done nothing
C3_Witness ==
    /\ climate_handler = "on_temp_decreased"
    /\ new_state_value = <<"2", ".", "4", ".">>
    /\ ~climate_raised
    /\ climate_issued = <<>>

(***************************************************************************)
(* PresenceTracker                                                         *)
(***************************************************************************)
\* on_initialize and every on_tracker_change invoked have run to their end
PresenceQuiescent ==
    /\ init_pc = "done"
    /\ \A i \in 1..Len(tracker_pc) : tracker_pc[i] = "done"

\* C4: once on_initialize and the tracker events delivered have been fully
\* handled, the app holds a zone subscription if and only if the most recent
\* tracker state is not "home" (a missing tracker counts as away).
C4_SubscribedIffAway ==
    PresenceQuiescent => (zone_subscription # NoSub <=> tracker # "home")

ExpectedSensor ==
    CASE person_name = <<"U", "n", "k", "n", "o", "w", "n">> ->
             <<"sensor.", "u", "n", "k", "n", "o", "w", "n", "_presence">>
      [] person_name = <<"b", "O", "B">> ->
             <<"sensor.", "b", "o", "b", "_presence">>

\* C5: on_initialize writes "home" to sensor.<lowercased person_name>_presence
\* exactly when the tracker entity exists with value "home" and "away"
\* otherwise; every on_tracker_change writes "home" exactly when the new value
\* is "home" and "away" otherwise; once all tracker events have been handled
\* the last value written corresponds to the latest tracker state.
C5_SensorFollowsTracker ==
    /\ \A j \in 1..Len(sensor_writes) :
           /\ sensor_writes[j].entity = ExpectedSensor
           /\ sensor_writes[j].state \in {"home", "away"}
    /\ init_pc # "start" =>
           /\ Len(sensor_writes) = 1 + Len(tracker_events)
           /\ sensor_writes[1].state = "home" <=> tracker_state = "home"
    /\ \A i \in 1..Len(tracker_events) :
           sensor_writes[i + 1].state = "home" <=> tracker_events[i] = "home"
    /\ PresenceQuiescent =>
           (sensor_writes[Len(sensor_writes)].state = "home" <=> tracker = "home")

\* a missing tracker at startup, then work and home: the sensor reads home
C5_Witness ==
    /\ PresenceQuiescent
    /\ tracker_state = Missing
    /\ tracker_events = <<"work", "home">>
    /\ sensor_writes[1].state = "away"
    /\ sensor_writes[Len(sensor_writes)].state = "home"
    /\ person_name = <<"b", "O", "B">>

\* C10: a PresenceTracker never has more than one live (created and not yet
\* cancelled) zone.home subscription, under every interleaving of
\* on_initialize and on_tracker_change.
C10_AtMostOneLiveSubscription == Cardinality(live_subs) <= 1

(***************************************************************************)
(* MotionLights                                                            *)
(***************************************************************************)
\* C6: every change of the motion entity to "on" leads to a turn_on of
\* light_entity at boost_brightness, and every change to "off" that is not
\* followed by another within off_delay is eventually followed by a call of
\* on_motion_cleared, which turns light_entity off when the light is on.
C6_MotionLights ==
    /\ \A i \in 1..MaxMotionEvents :
           (Len(detected) >= i /\ detected[i].pc = "get_entity")
               ~> (Len(detected) >= i /\ detected[i].issued =
                       <<[cmd |-> "turn_on", entity |-> "light.kitchen_lights",
                          brightness |-> 255]>>)
    /\ \A k \in 0..MaxMotionEvents :
           (debounce # NoTimer /\ Len(cleared) = k) ~> (Len(cleared) > k)
    /\ [](\A j \in 1..Len(cleared) :
              cleared[j].light = "on" =>
                  cleared[j].issued =
                      <<[cmd |-> "turn_off", entity |-> "light.kitchen_lights",
                         domain |-> "light"]>>)

\* motion came and went: the light was turned on at 255 and, found on when
\* the delay had passed, turned off
C6_Witness ==
    /\ Len(detected) >= 1
    /\ detected[1].issued = <<LightTurnOn>>
    /\ Len(cleared) >= 1
    /\ cleared[1].light = "on"
    /\ cleared[1].motion = "off"
    /\ cleared[1].issued = <<LightTurnOff>>

\* C11: no call of on_motion_cleared issues turn_off for light_entity while
\* the motion entity's latest state is "on" (motion went "off" and came back
\* "on" before off_delay had passed), and a call issues turn_off only when
\* the cached state of light_entity is "on" and no command otherwise.
C11_NoTurnOffWhileMotionOn ==
    \A j \in 1..Len(cleared) :
        /\ cleared[j].motion = "on" => cleared[j].issued = <<>>
        /\ cleared[j].issued \in
               {<<>>, <<[cmd |-> "turn_off", entity |-> "light.kitchen_lights",
                         domain |-> "light"]>>}
        /\ cleared[j].issued # <<>> => cleared[j].light = "on"

(***************************************************************************)
(* CoverScheduler                                                         *)
(***************************************************************************)
\* the map from every cover entity id of a state store to its value
PositionsOf(store) == {<<e, store[e]>> : e \in {x \in CoverIdSet : store[x] # Absent}}

\* C7: after any sequence of position logs and a shutdown, the cache entry
\* "last_cover_positions" is the map from every cover entity id to its value
\* as read at the most recent log_cover_positions or on_shutdown, and the next
\* on_initialize reads back exactly that map and leaves the cache as it was.
C7_PositionsPersist ==
    \A store \in saved_store :
        /\ cover_phase = "stopped" =>
               DictGet(cache, "last_cover_positions") = {PositionsOf(store)}
        /\ (cover_phase = "running" /\ ~logged_since_init) =>
               /\ cached = {PositionsOf(store)}
               /\ DictGet(cache, "last_cover_positions") = {PositionsOf(store)}

\* restarted after a shutdown that saved a closed kitchen cover and a hall
\* cover without value; the kitchen cover has changed since
C7_Witness ==
    /\ cover_phase = "running"
    /\ ~logged_since_init
    /\ cached = {{<<"cover.kitchen_window", "closed">>, <<"cover.hall_window", None>>}}
    /\ covers["cover.kitchen_window"] = "open"

\* the calls of a run are one call of the service per cover entity the state
\* store knew when the run began, each aimed at its entity
OnePerCover(job, service) ==
    /\ Len(job.calls) = Cardinality(job.known)
    /\ \A e \in job.known :
           Cardinality({i \in 1..Len(job.calls) : job.calls[i].target = e}) = 1
    /\ \A i \in 1..Len(job.calls) :
           /\ job.calls[i].domain = "cover"
           /\ job.calls[i].service = service
           /\ job.calls[i].target \in job.known

\* a run over a store that no entity entered or left while the run was
\* suspended comes to its end without raising, and then its calls are one per
\* cover entity of the store
RunOverSteadyStore(job, service) ==
    ~job.changed =>
        /\ job.pc # "raised"
        /\ job.pc = "done" => OnePerCover(job, service)

C9_AlertThrottled ==
    /\ \A i \in 1..Len(alerts), j \in 1..Len(alerts) :
           i < j => alerts[j].time - alerts[i].time >= MoistureThrottle
    /\ \A i \in 1..Len(alerts) : alerts[i].value = "on"

\* two alerts exactly moisture_throttle apart, and the sensor is on again
\* before the throttle lets a third through
C9_Witness ==
    /\ Len(alerts) = 2
    /\ alerts[2].time - alerts[1].time = MoistureThrottle
    /\ moisture = "on"
    /\ clock - alerts[2].time \in 1..(MoistureThrottle - 1)
    /\ last_alert = alerts[2].time

====
